---- MODULE Spec2Model ----
(***************************************************************************)
(* A model of RimworldXMLTools: the tag finder's background search         *)
(* (src/src/finder.rs, src/src/xml_parser.rs) and the Def inheritance      *)
(* engine (src/src/inheritance.rs).                                        *)
(***************************************************************************)
EXTENDS Integers, Sequences, FiniteSets, TLC

(***************************************************************************)
(* State.  The tag finder tab, the fold of merge_node, the inheritance tab *)
(* and a run of parse_def_data each have their own variables.             *)
(***************************************************************************)
\* finder.rs: TagFinderTab and its search threads.
VARIABLES
    tab,             \* the TagFinderTab's own fields
    search_results,  \* the Arc<Mutex<Option<SearchResult>>> slot
    flags,           \* every Arc<AtomicBool> cancel flag allocated so far
    threads,         \* the threads spawned by search_xml_files
    results_from     \* history: the search whose values `tab.results` holds

finderVars == << tab, search_results, flags, threads, results_from >>

\* inheritance.rs:239-247: the fold of merge_node over a chain's raw_nodes.
VARIABLES
    m_nodes,        \* the nodes to fold
    m_first,        \* how many of them belong to the chain's first record
    m_i,            \* the next node to fold
    merged_nodes,   \* the BTreeMap being built
    m_prev          \* history: merged_nodes before the last merge_node

mergeVars == << m_nodes, m_first, m_i, merged_nodes, m_prev >>

\* inheritance.rs: InheritanceTab and the locals of expand_inheritance.
VARIABLES
    all_defs,            \* InheritanceTab::all_defs
    selected_def_name,   \* InheritanceTab::selected_def_name
    search_query,        \* InheritanceTab::search_query
    inheritance_chain,   \* InheritanceTab::inheritance_chain
    expanded_xml,        \* InheritanceTab::expanded_xml, as its lines
    e_pc,                \* where expand_inheritance stands: "idle", "walk", "finish"
    chain,               \* expand_inheritance's local `chain`
    current_parent,      \* expand_inheritance's local `current_parent`
    last_scan            \* history: the scan that has just completed, if any

inheritVars == << all_defs, selected_def_name, search_query, inheritance_chain,
                  expanded_xml, e_pc, chain, current_parent, last_scan >>

\* inheritance.rs:312-468: a run of parse_def_data and the record shown after it.
VARIABLES
    p_items,      \* the children of <Defs> in the file
    p_i,          \* the next event of the reader
    p_st,         \* the locals of parse_def_data
    p_pc,         \* "loop", "done" (Ok(results) returned), "shown"
    p_selected,   \* the record selected after the scan
    p_xml         \* the expanded XML of the selected record

parseVars == << p_items, p_i, p_st, p_pc, p_selected, p_xml >>

\* xml_parser.rs: a run of extract_tag_values.
VARIABLES
    x_fields,     \* the children of the record of the file
    x_tag,        \* the requested tag_name
    x_i,          \* the next event of the reader
    x_st,         \* the locals of extract_tag_values
    x_pc          \* "loop", "done" (Ok(values) returned)

extractVars == << x_fields, x_tag, x_i, x_st, x_pc >>

\* inheritance.rs:491-574: a call of generate_node_xml.
VARIABLES
    g_node,       \* the argument `node`
    g_indent,     \* the argument `indent_level`
    g_xml,        \* the lines the call appended to `xml`
    g_pc          \* "call", "done"

genVars == << g_node, g_indent, g_xml, g_pc >>

vars == << finderVars, mergeVars, inheritVars, parseVars, extractVars, genVars >>

\* What each component leaves alone.
notFinder == << mergeVars, inheritVars, parseVars, extractVars, genVars >>
notMerge == << finderVars, inheritVars, parseVars, extractVars, genVars >>
notInherit == << finderVars, mergeVars, parseVars, extractVars, genVars >>
notParse == << finderVars, mergeVars, inheritVars, extractVars, genVars >>
notExtract == << finderVars, mergeVars, inheritVars, parseVars, genVars >>
notGen == << finderVars, mergeVars, inheritVars, parseVars, extractVars >>

(***************************************************************************)
(* Strings.  Rust compares and sorts String values byte-wise; the strings  *)
(* the model uses are listed here in that order.                           *)
(***************************************************************************)
StrOrder ==
    << "", "Defs", "Ghost", "Group", "Label", "Leaf", "Mid", "Root", "ThingDef",
       "a", "axe", "b", "c", "comps", "defName", "gun", "k", "label", "li",
       "stuffDef", "tags", "v", "w", "x", "y" >>

StrRank(s) == CHOOSE i \in 1..Len(StrOrder) : StrOrder[i] = s

\* String::cmp: byte-wise less-than.
StrLess(a, b) == StrRank(a) < StrRank(b)

\* str::to_lowercase.
ToLowercase(s) ==
    CASE s = "Label" -> "label"
      [] s = "Defs" -> "defs"
      [] s = "Ghost" -> "ghost"
      [] s = "Group" -> "group"
      [] s = "Leaf" -> "leaf"
      [] s = "Mid" -> "mid"
      [] s = "Root" -> "root"
      [] s = "ThingDef" -> "thingdef"
      [] s = "defName" -> "defname"
      [] s = "stuffDef" -> "stuffdef"
      [] OTHER -> s

\* str::ends_with("Def").
EndsWithDef(s) == s \in {"ThingDef", "stuffDef"}

\* Option::None.
None == "<None>"

\* SortedSeq that puts the members in descending order.
RECURSIVE SortedSeq_Descending(_)
SortedSeq_Descending(S) ==
    IF S = {} THEN << >>
    ELSE LET m == CHOOSE x \in S : \A y \in S : x = y \/ StrLess(y, x)
         IN  << m >> \o SortedSeq_Descending(S \ {m})

\* Vec::sort on the elements of a set: the ascending sequence of its members.
RECURSIVE SortedSeq(_)
SortedSeq(S) ==
    IF S = {} THEN << >>
    ELSE LET m == CHOOSE x \in S : \A y \in S : x = y \/ StrLess(x, y)
         IN  << m >> \o SortedSeq(S \ {m})

(***************************************************************************)
(* quick_xml reader events.                                                *)
(***************************************************************************)
StartEv(n, a) == [type |-> "Start", name |-> n, attrs |-> a, text |-> ""]
EmptyEv(n, a) == [type |-> "Empty", name |-> n, attrs |-> a, text |-> ""]
TextEv(t)     == [type |-> "Text", name |-> "", attrs |-> << >>, text |-> t]
EndEv(n)      == [type |-> "End", name |-> n, attrs |-> << >>, text |-> ""]
ErrEv         == [type |-> "Err", name |-> "", attrs |-> << >>, text |-> ""]

\* A leaf element with text, as the reader reports it.
Leaf(n, t) == << StartEv(n, << >>), TextEv(t), EndEv(n) >>

\* str::trim, and the reader's trim_text(true).
Trim(s) ==
    CASE s = " b " -> "b"
      [] s = "  " -> ""
      [] OTHER -> s

(***************************************************************************)
(* xml_parser.rs: extract_tag_values.                                      *)
(***************************************************************************)
ExtractInit == [values |-> {}, inside_target_tag |-> FALSE, inside_li |-> FALSE]

\* One turn of the event loop (xml_parser.rs:22-64) on event e.
ExtractEvent(st, e, tag) ==
    CASE e.type = "Start" ->
            IF ToLowercase(e.name) = ToLowercase(tag)
            THEN [st EXCEPT !.inside_target_tag = TRUE]
            ELSE IF e.name = "li" /\ st.inside_target_tag
            THEN [st EXCEPT !.inside_li = TRUE]
            ELSE st
      [] e.type = "Text" ->
            IF (st.inside_li \/ st.inside_target_tag) /\ Trim(e.text) # ""
            THEN [st EXCEPT !.values = @ \cup {Trim(e.text)}]
            ELSE st
      [] e.type = "End" ->
            IF e.name = tag
            THEN [st EXCEPT !.inside_target_tag = FALSE]
            ELSE IF e.name = "li"
            THEN [st EXCEPT !.inside_li = FALSE]
            ELSE st
      [] OTHER -> st

RECURSIVE ExtractLoop(_, _, _, _)
ExtractLoop(st, events, i, tag) ==
    IF i > Len(events) \/ events[i].type = "Err" THEN st
    ELSE ExtractLoop(ExtractEvent(st, events[i], tag), events, i + 1, tag)

\* extract_tag_values on a readable file holding `events`.
ExtractTagValues(events, tag) == ExtractLoop(ExtractInit, events, 1, tag).values

(***************************************************************************)
(* The XML files under the search path.                                    *)
(***************************************************************************)
NumFiles == 2
XmlFiles == 1..NumFiles

FileA ==
    << StartEv("Defs", << >>), StartEv("ThingDef", << >>) >>
    \o Leaf("label", "gun")
    \o << StartEv("tags", << >>) >> \o Leaf("li", "a") \o Leaf("li", " b ")
    \o << EndEv("tags"), EndEv("ThingDef"), EndEv("Defs") >>

FileB ==
    << StartEv("Defs", << >>), StartEv("ThingDef", << >>) >>
    \o Leaf("Label", "axe")
    \o << StartEv("tags", << >>) >> \o Leaf("li", "b") \o Leaf("li", "c")
    \o << EndEv("tags"), EndEv("ThingDef"), EndEv("Defs") >>

\* Files whose File::open fails (extract_tag_values returns Err).
FileReadable(f) == f % 3 # 0
FileContent(f) == IF f % 3 = 1 THEN FileA ELSE FileB

\* One element of the par_iter pipeline (finder.rs:104): .ok() drops a failure.
FileValues(f, tag) ==
    IF FileReadable(f) THEN ExtractTagValues(FileContent(f), tag) ELSE {}

(***************************************************************************)
(* finder.rs: TagFinderTab and its background search threads.              *)
(***************************************************************************)

MaxSearches == 2
SearchIds == 1..MaxSearches

\* The tags the user types into the tag box (it starts empty), and the base
\* paths the settings hold: none, a directory, a path that does not exist.
TagInputs == {"label", "tags"}
Paths == {"", "/mods", "/gone"}

\* PathBuf::exists.
PathExists(p) == p = "/mods"

\* History carried with a SearchResult: the search that computed it, its tag,
\* whether a later search_xml_files cancelled it while it was running, and
\* whether its pipeline skipped a file.
NoOrigin == [by |-> 0, tag |-> "", stale |-> FALSE, skipped |-> FALSE]
Origin(t) ==
    [by |-> t, tag |-> threads[t].tag, stale |-> threads[t].stale,
     skipped |-> threads[t].skipped]

\* The slot's None, and Some(SearchResult).
NoResult == [some |-> FALSE, values |-> << >>, xml_count |-> 0, origin |-> NoOrigin]
SomeResult(values, count, origin) ==
    [some |-> TRUE, values |-> values, xml_count |-> count, origin |-> origin]

\* A thread that was not spawned yet, and one that returned.
NotSpawned ==
    [pc |-> "none", tag |-> "", todo |-> {}, values |-> {}, skipped |-> FALSE,
     xml_count |-> 0, stale |-> FALSE]
Returned == [NotSpawned EXCEPT !.pc = "done"]

Status(kind, count, found) == [kind |-> kind, xml_count |-> count, found |-> found]

\* The number of searches that spawned a thread.
NumSpawned == Cardinality({t \in SearchIds : threads[t].pc # "none"})

\* TagFinderTab::new.
FinderInit ==
    /\ tab = [tag_name |-> "", search_path |-> "", results |-> << >>,
              status_message |-> Status("", 0, 0), is_searching |-> FALSE,
              last_tag_name |-> "", cancel_flag |-> 0]
    /\ search_results = NoResult
    /\ flags = [i \in 0..MaxSearches |-> FALSE]
    /\ threads = [t \in SearchIds |-> NotSpawned]
    /\ results_from = NoOrigin

\* The finder's state as one value, for the operations a ui frame chains.
World == [tab |-> tab, search_results |-> search_results, flags |-> flags,
          threads |-> threads, results_from |-> results_from,
          spawned |-> NumSpawned]

\* finder.rs:52, with the history of which running search it cancels.
CancelPrevious(w) ==
    LET old == w.tab.cancel_flag
    IN  [w EXCEPT !.flags[old] = TRUE,
                  !.threads = [t \in SearchIds |->
                      IF t = old /\ w.threads[t].pc \in {"scan", "store"}
                      THEN [w.threads[t] EXCEPT !.stale = TRUE]
                      ELSE w.threads[t]]]

\* finder.rs:85-98: the thread is spawned and enumerates the XML files.
Spawn(w, id) ==
    [w EXCEPT !.flags[id] = FALSE,
              !.tab.cancel_flag = id,
              !.threads[id] =
                  [pc |-> "scan", tag |-> w.tab.tag_name, todo |-> XmlFiles,
                   values |-> {}, skipped |-> FALSE,
                   xml_count |-> Cardinality(XmlFiles), stale |-> FALSE]]

\* TagFinderTab::search_xml_files.
SearchXmlFiles(w0) ==
    LET w  == CancelPrevious(w0)
        w1 == [w EXCEPT !.tab.results = << >>,
                        !.results_from = NoOrigin,
                        !.tab.status_message = Status("searching", 0, 0),
                        !.tab.is_searching = TRUE]
        id == w.spawned + 1
    IN  IF w.tab.tag_name = ""
        THEN [w1 EXCEPT !.tab.status_message = Status("error_tag", 0, 0),
                        !.tab.is_searching = FALSE]
        ELSE IF w.tab.search_path = ""
        THEN [w1 EXCEPT !.tab.status_message = Status("error_path", 0, 0),
                        !.tab.is_searching = FALSE]
        ELSE IF ~PathExists(w.tab.search_path)
        THEN [w1 EXCEPT !.tab.status_message = Status("error_missing", 0, 0),
                        !.tab.is_searching = FALSE]
        ELSE IF id > MaxSearches
        THEN [w1 EXCEPT !.spawned = id]
        ELSE [Spawn(w1, id) EXCEPT !.spawned = id]

\* TagFinderTab::check_search_results.
CheckSearchResults(w) ==
    IF w.search_results.some
    THEN [w EXCEPT !.tab.results = w.search_results.values,
                   !.results_from = w.search_results.origin,
                   !.tab.status_message =
                       Status("done", w.search_results.xml_count,
                              Len(w.search_results.values)),
                   !.tab.is_searching = FALSE,
                   !.search_results = NoResult]
    ELSE w

\* finder.rs:146-162: the settings' base path, `base` in this frame, is
\* adopted, with a new search.
UiSettings(w, base) ==
    IF base # w.tab.search_path
    THEN LET a == [w EXCEPT !.tab.search_path = base]
         IN  IF a.tab.tag_name # "" /\ a.tab.search_path # ""
             THEN SearchXmlFiles(a) ELSE a
    ELSE w

NoEdit == "<no edit>"

\* finder.rs:191-199: the tag text box, edited to `edit` in this frame.
UiTagEdit(w, edit) ==
    IF edit = NoEdit THEN w
    ELSE LET a == [w EXCEPT !.tab.tag_name = edit]
         IN  IF a.tab.tag_name # a.tab.last_tag_name
             THEN LET b == [a EXCEPT !.tab.last_tag_name = a.tab.tag_name]
                  IN  IF b.tab.tag_name # "" /\ b.tab.search_path # ""
                      THEN SearchXmlFiles(b) ELSE b
             ELSE a

\* TagFinderTab::ui: one frame of the finder tab, in which the shared
\* settings hold `base` and the user edits the tag to `edit` (or not at all).
Ui(base, edit) ==
    LET w == UiTagEdit(CheckSearchResults(UiSettings(World, base)), edit)
    IN  /\ edit # tab.tag_name
        /\ w.spawned <= MaxSearches
        /\ tab' = w.tab
        /\ search_results' = w.search_results
        /\ flags' = w.flags
        /\ threads' = w.threads
        /\ results_from' = w.results_from
        /\ UNCHANGED notFinder

\* finder.rs:101-106: one file of the par_iter pipeline, the filter on the
\* cancel flag and then extract_tag_values.
WorkerFile(t, f) ==
    /\ threads[t].pc = "scan"
    /\ f \in threads[t].todo
    /\ threads' = [threads EXCEPT ![t] =
          IF flags[t]
          THEN [@ EXCEPT !.todo = @ \ {f}, !.skipped = TRUE]
          ELSE [@ EXCEPT !.todo = @ \ {f},
                         !.values = @ \cup FileValues(f, threads[t].tag)]]
    /\ UNCHANGED notFinder
    /\ UNCHANGED << tab, search_results, flags, results_from >>

\* WorkerCheck without the check: the thread goes on to store in any case.
WorkerCheck_NoRecheck(t) ==
    /\ threads[t].pc = "scan"
    /\ threads[t].todo = {}
    /\ threads' = [threads EXCEPT ![t].pc = "store"]
    /\ UNCHANGED notFinder
    /\ UNCHANGED << tab, search_results, flags, results_from >>

\* finder.rs:109-111: the check of the cancel flag after the pipeline.
WorkerCheck(t) ==
    /\ threads[t].pc = "scan"
    /\ threads[t].todo = {}
    /\ threads' = [threads EXCEPT ![t] =
          IF flags[t] THEN Returned ELSE [@ EXCEPT !.pc = "store"]]
    /\ UNCHANGED notFinder
    /\ UNCHANGED << tab, search_results, flags, results_from >>

\* finder.rs:114-126: sort and store the result.
WorkerStore(t) ==
    /\ threads[t].pc = "store"
    /\ search_results' =
          SomeResult(SortedSeq(threads[t].values), threads[t].xml_count, Origin(t))
    /\ threads' = [threads EXCEPT ![t] = Returned]
    /\ UNCHANGED notFinder
    /\ UNCHANGED << tab, flags, results_from >>

FinderNext ==
    \/ \E base \in Paths, edit \in TagInputs \cup {NoEdit} : Ui(base, edit)
    \/ \E t \in SearchIds, f \in XmlFiles : WorkerFile(t, f)
    \/ \E t \in SearchIds : WorkerCheck(t)
    \/ \E t \in SearchIds : WorkerStore(t)

(***************************************************************************)
(* inheritance.rs: XmlNode, and a BTreeMap<String, XmlNode> keyed by tag,  *)
(* held as the sequence of its values in ascending key order.              *)
(***************************************************************************)
XmlNode(tag, attributes, children, text) ==
    [tag |-> tag, attributes |-> attributes, children |-> children, text |-> text]

MapHas(m, key) == \E i \in 1..Len(m) : m[i].tag = key
MapGet(m, key) == m[CHOOSE i \in 1..Len(m) : m[i].tag = key]

\* BTreeMap::insert of (node.tag, node): the entry is replaced, or added at
\* its place in key order.
MapInsert(m, node) ==
    IF MapHas(m, node.tag)
    THEN [i \in 1..Len(m) |-> IF m[i].tag = node.tag THEN node ELSE m[i]]
    ELSE LET below == SelectSeq(m, LAMBDA n : StrLess(n.tag, node.tag))
             above == SelectSeq(m, LAMBDA n : StrLess(node.tag, n.tag))
         IN  below \o << node >> \o above

\* Iterator::collect into a BTreeMap keyed by tag (inheritance.rs:289-294).
RECURSIVE CollectMap(_)
CollectMap(nodes) ==
    IF nodes = << >> THEN << >>
    ELSE MapInsert(CollectMap(SubSeq(nodes, 1, Len(nodes) - 1)), nodes[Len(nodes)])

IsLi(n) == n.tag = "li"
NotLi(n) == n.tag # "li"

\* child.text.as_ref().map(|s| s.as_str()).unwrap_or("")
TextOrEmpty(n) == IF n.text = None THEN "" ELSE n.text

\* LiExists that compares the text alone.
LiExists_TextOnly(children, child) ==
    \E j \in 1..Len(children) :
        /\ children[j].tag = "li"
        /\ TextOrEmpty(children[j]) = TextOrEmpty(child)

\* inheritance.rs:276-283: an <li> with the text and the attributes of
\* `child` is among `children`.
LiExists(children, child) ==
    \E j \in 1..Len(children) :
        /\ children[j].tag = "li"
        /\ TextOrEmpty(children[j]) = TextOrEmpty(child)
        /\ children[j].attributes = child.attributes

\* A retain that keeps no child.
RetainLi_None(children) == << >>

\* inheritance.rs:298: existing.children.retain(|c| c.tag == "li").
RetainLi(children) == SelectSeq(children, IsLi)

RECURSIVE MergeNode(_, _)
RECURSIVE MergeChildren(_, _, _)

\* A list merge that takes the tag, attributes and text of the incoming node.
MergeList_FromNode(existing, node) ==
    [node EXCEPT !.children =
        MergeChildren(existing.children, node.children, 1)]

\* inheritance.rs:270-301: the branch for a node with li children works on
\* `existing` in place, and touches its children only.
MergeList(existing, node) ==
    [existing EXCEPT !.children =
        MergeChildren(existing.children, node.children, 1)]

\* inheritance.rs:272-301: the loop over node.children, from its i-th child,
\* on existing.children.
MergeChildren(existing_children, node_children, i) ==
    IF i > Len(node_children) THEN existing_children
    ELSE LET child == node_children[i]
         IN  IF child.tag = "li"
             THEN MergeChildren(
                      IF LiExists(existing_children, child)
                      THEN existing_children
                      ELSE Append(existing_children, child),
                      node_children, i + 1)
             ELSE LET child_map == CollectMap(SelectSeq(existing_children, NotLi))
                  IN  MergeChildren(
                          RetainLi(existing_children)
                              \o MergeNode(child_map, child),
                          node_children, i + 1)

\* Overwrite that keeps the attributes of the entry it replaces.
Overwrite_KeepAttributes(existing, node) ==
    [node EXCEPT !.attributes = existing.attributes,
                 !.children = IF node.children = << >> THEN existing.children
                              ELSE node.children]

\* inheritance.rs:302-305: the node replaces the existing entry.
Overwrite(existing, node) == node

\* merge_node.
MergeNode(merged, node) ==
    IF MapHas(merged, node.tag)
    THEN LET existing == MapGet(merged, node.tag)
             has_li_children == \E c \in 1..Len(node.children) :
                                    node.children[c].tag = "li"
         IN  IF has_li_children
             THEN MapInsert(merged, MergeList(existing, node))
             ELSE MapInsert(merged, Overwrite(existing, node))
    ELSE MapInsert(merged, node)

(***************************************************************************)
(* The nodes the merge is run on.                                          *)
(***************************************************************************)
KV == << "k", "v" >>
WV == << "w", "v" >>

LiText(t)       == XmlNode("li", << >>, << >>, t)
LiAttr(t, a)    == XmlNode("li", a, << >>, t)
Comps(t)        == XmlNode("comps", << >>, << >>, t)
LiStruct(t)     == XmlNode("li", << >>, << Comps(t) >>, None)
Tags(children)  == XmlNode("tags", << >>, children, None)

ListChildren == { LiText("x"), LiText("y"), LiAttr("x", << KV >>), Comps("a") }

\* Sequences over S of length at most n.
RECURSIVE SeqsUpTo(_, _)
SeqsUpTo(S, n) ==
    IF n = 0 THEN { << >> }
    ELSE LET shorter == SeqsUpTo(S, n - 1)
         IN  shorter \cup { Append(q, x) : q \in shorter, x \in S }

MaxChildren == 1

NodeUniverse ==
    { Tags(c) : c \in SeqsUpTo(ListChildren, MaxChildren) }
    \cup { Tags(<< LiText("x"), LiText("y") >>),
           Tags(<< LiText("y"), LiText("x") >>),
           Tags(<< LiText("x"), LiText("x") >>),
           XmlNode("tags", << KV >>, << LiText("y") >>, None),
           XmlNode("tags", << >>, << LiText("y") >>, "x"),
           Tags(<< LiStruct("a") >>), Tags(<< LiStruct("b") >>),
           Tags(<< LiAttr("x", << KV, WV >>) >>),
           Tags(<< LiAttr("x", << WV, KV >>) >>),
           Tags(<< LiText("x"), Comps("b") >>),
           Tags(<< Comps("a"), LiText("y") >>),
           Tags(<< LiText(None) >>),
           XmlNode("label", << >>, << >>, "x"),
           XmlNode("label", << >>, << >>, "y"),
           XmlNode("label", << KV >>, << >>, "x"),
           XmlNode("label", << >>, << Comps("a") >>, None),
           XmlNode("label", << >>, << >>, None) }

(***************************************************************************)
(* inheritance.rs:239-247: the fold of a chain's raw_nodes.  m_nodes is    *)
(* the raw_nodes of the chain's records, root first, one after the other;  *)
(* the first m_first of them are the root record's.                        *)
(***************************************************************************)

MaxNodes == 2

MergeInit ==
    /\ m_nodes \in SeqsUpTo(NodeUniverse, MaxNodes) \ { << >> }
    /\ m_first \in {1, Len(m_nodes)}
    /\ m_i = 1
    /\ merged_nodes = << >>
    /\ m_prev = << >>

\* One merge_node call of the loop at inheritance.rs:241-247.
MergeStep ==
    /\ m_i <= Len(m_nodes)
    /\ merged_nodes' = MergeNode(merged_nodes, m_nodes[m_i])
    /\ m_prev' = merged_nodes
    /\ m_i' = m_i + 1
    /\ UNCHANGED notMerge
    /\ UNCHANGED << m_nodes, m_first >>

MergeParked ==
    /\ m_nodes = << >>
    /\ m_first = 0
    /\ m_i = 1
    /\ merged_nodes = << >>
    /\ m_prev = << >>

(***************************************************************************)
(* inheritance.rs: generate_expanded_xml and generate_node_xml.  The text  *)
(* is held as the sequence of its lines; each line carries, beside its     *)
(* characters `s` (without the final newline), the element it was written  *)
(* for.                                                                    *)
(***************************************************************************)
Line(s, kind, tag, attributes, text) ==
    [s |-> s, kind |-> kind, tag |-> tag, attributes |-> attributes, text |-> text]

\* Indent with one space for each level.
RECURSIVE Indent_OneSpace(_)
Indent_OneSpace(indent_level) ==
    IF indent_level = 0 THEN "" ELSE " " \o Indent_OneSpace(indent_level - 1)

\* "  ".repeat(indent_level)
RECURSIVE Indent(_)
Indent(indent_level) ==
    IF indent_level = 0 THEN "" ELSE "  " \o Indent(indent_level - 1)

\* The loop `for (key, value) in attributes`: format!(" {}=\"{}\"", key, value).
RECURSIVE AttrText(_)
AttrText(attributes) ==
    IF attributes = << >> THEN ""
    ELSE " " \o Head(attributes)[1] \o "=\"" \o Head(attributes)[2] \o "\""
             \o AttrText(Tail(attributes))

\* An li line that leaves the attributes of an <li> without text out.
LiLine_BareEmpty(indent, child) ==
    IF child.text # None
    THEN Line(indent \o "  <li" \o AttrText(child.attributes)
                  \o ">" \o child.text \o "</li>",
              "simple", "li", child.attributes, child.text)
    ELSE Line(indent \o "  <li />", "empty", "li", child.attributes, None)

\* inheritance.rs:541-565: an <li> child without children, on one line.
LiLine(indent, child) ==
    IF child.text # None
    THEN IF child.attributes = << >>
         THEN Line(indent \o "  <li>" \o child.text \o "</li>",
                   "simple", "li", child.attributes, child.text)
         ELSE Line(indent \o "  <li" \o AttrText(child.attributes)
                       \o ">" \o child.text \o "</li>",
                   "simple", "li", child.attributes, child.text)
    ELSE IF child.attributes = << >>
         THEN Line(indent \o "  <li />", "empty", "li", child.attributes, None)
         ELSE Line(indent \o "  <li" \o AttrText(child.attributes) \o " />",
                   "empty", "li", child.attributes, None)

RECURSIVE GenerateNodeXml(_, _)
RECURSIVE GenerateChildren(_, _, _)

\* inheritance.rs:540-569: the loop over node.children, from the i-th child.
GenerateChildren(children, i, indent_level) ==
    IF i > Len(children) THEN << >>
    ELSE LET child == children[i]
         IN  (IF child.tag = "li" /\ child.children = << >>
              THEN << LiLine(Indent(indent_level), child) >>
              ELSE GenerateNodeXml(child, indent_level + 1))
             \o GenerateChildren(children, i + 1, indent_level)

\* generate_node_xml: the lines it appends.
GenerateNodeXml(node, indent_level) ==
    LET indent == Indent(indent_level)
        is_simple == node.children = << >> /\ node.text # None
        is_empty == node.children = << >> /\ node.text = None
    IN  IF is_simple
        THEN IF node.attributes = << >>
             THEN << Line(indent \o "<" \o node.tag \o ">" \o node.text
                              \o "</" \o node.tag \o ">",
                          "simple", node.tag, node.attributes, node.text) >>
             ELSE << Line(indent \o "<" \o node.tag \o AttrText(node.attributes)
                              \o ">" \o node.text \o "</" \o node.tag \o ">",
                          "simple", node.tag, node.attributes, node.text) >>
        ELSE IF is_empty
        THEN IF node.attributes = << >>
             THEN << Line(indent \o "<" \o node.tag \o " />",
                          "empty", node.tag, node.attributes, None) >>
             ELSE << Line(indent \o "<" \o node.tag \o AttrText(node.attributes)
                              \o " />",
                          "empty", node.tag, node.attributes, None) >>
        ELSE << IF node.attributes = << >>
                THEN Line(indent \o "<" \o node.tag \o ">",
                          "open", node.tag, node.attributes, node.text)
                ELSE Line(indent \o "<" \o node.tag \o AttrText(node.attributes)
                              \o ">",
                          "open", node.tag, node.attributes, node.text) >>
             \o (IF node.text # None
                 THEN << Line(indent \o "  " \o node.text,
                              "text", node.tag, << >>, node.text) >>
                 ELSE << >>)
             \o GenerateChildren(node.children, 1, indent_level)
             \o << Line(indent \o "</" \o node.tag \o ">",
                        "close", node.tag, << >>, None) >>

\* The loop over the map's values without the test on defName.
RECURSIVE GenerateNodes_All(_, _)
GenerateNodes_All(nodes, i) ==
    IF i > Len(nodes) THEN << >>
    ELSE GenerateNodeXml(nodes[i], 1) \o GenerateNodes_All(nodes, i + 1)

\* inheritance.rs:481-485: the loop over the map's values in key order.
RECURSIVE GenerateNodes(_, _)
GenerateNodes(nodes, i) ==
    IF i > Len(nodes) THEN << >>
    ELSE (IF nodes[i].tag # "defName" THEN GenerateNodeXml(nodes[i], 1) ELSE << >>)
             \o GenerateNodes(nodes, i + 1)

\* generate_expanded_xml.
GenerateExpandedXml(def_name, def_type, nodes) ==
    << Line("<" \o def_type \o ">", "open", def_type, << >>, None),
       Line("  <defName>" \o def_name \o "</defName>",
            "simple", "defName", << >>, def_name) >>
    \o GenerateNodes(nodes, 1)
    \o << Line("</" \o def_type \o ">", "close", def_type, << >>, None) >>

(***************************************************************************)
(* inheritance.rs: InheritanceTab.  all_defs, a HashMap keyed by def_name, *)
(* is held as the set of its values.                                       *)
(***************************************************************************)

DefNames == {"Root", "Mid", "Leaf"}
\* A ParentName no record carries as its name.
Ghost == "Ghost"

\* The direct children parse_def_data found under the record of each name.
RawNodesOf(name) ==
    CASE name = "Root" -> << XmlNode("label", << >>, << >>, "x"),
                             Tags(<< LiText("x") >>) >>
      [] name = "Mid"  -> << Tags(<< LiText("y"), LiText("x") >>) >>
      [] OTHER         -> << XmlNode("defName", << >>, << >>, name),
                             XmlNode("label", << >>, << >>, "y") >>

\* struct DefData (file_path and xml_content, never read, are left out).
MkDefData(def_name, parent_name, is_abstract, def_type, raw_nodes) ==
    [def_name |-> def_name, parent_name |-> parent_name,
     is_abstract |-> is_abstract, def_type |-> def_type, raw_nodes |-> raw_nodes]

DefData(def_name, parent_name, is_abstract) ==
    MkDefData(def_name, parent_name, is_abstract, "ThingDef", RawNodesOf(def_name))

\* What a scan can parse: for each name at most one record, with any parent.
ParentNames == DefNames \cup {Ghost, None}
ScanInputs ==
    { { DefData(n, f[n][1], f[n][2]) : n \in present } :
          present \in SUBSET DefNames,
          f \in [DefNames -> ParentNames \X BOOLEAN] }

Keys(defs) == { d.def_name : d \in defs }
\* HashMap::get on a key that is present.
Get(defs, name) == CHOOSE d \in defs : d.def_name = name

\* str::to_lowercase().contains(query.to_lowercase()), inheritance.rs:106-109.
Queries == {"", "mi"}
QueryMatches(name, query) ==
    query = "" \/ (ToLowercase(query) = "mi" /\ ToLowercase(name) = "mid")

\* No scan has just completed; and the scan of the records `parsed_defs`,
\* `replaced` telling whether the index before it held a name not among them.
NoScan == [fresh |-> FALSE, parsed |-> {}, replaced |-> FALSE]
ScanOf(parsed_defs, replaced) ==
    [fresh |-> TRUE, parsed |-> parsed_defs, replaced |-> replaced]

\* #[derive(Default)] InheritanceTab.
InheritInit ==
    /\ all_defs = {}
    /\ selected_def_name = ""
    /\ search_query = ""
    /\ inheritance_chain = << >>
    /\ expanded_xml = << >>
    /\ e_pc = "idle"
    /\ chain = << >>
    /\ current_parent = None
    /\ last_scan = NoScan

\* scan_all_defs without all_defs.clear(): the records are inserted into the
\* index as it is.
ScanAllDefs_NoClear(parsed_defs) ==
    /\ e_pc = "idle"
    /\ all_defs' = { d \in all_defs : d.def_name \notin Keys(parsed_defs) }
                       \cup parsed_defs
    /\ selected_def_name' = ""
    /\ expanded_xml' = << >>
    /\ inheritance_chain' = << >>
    /\ last_scan' = ScanOf(parsed_defs, Keys(all_defs) \ Keys(parsed_defs) # {})
    /\ UNCHANGED notInherit
    /\ UNCHANGED << search_query, e_pc, chain, current_parent >>

\* scan_all_defs, the files holding the records `parsed_defs` (one per name).
ScanAllDefs(parsed_defs) ==
    /\ e_pc = "idle"
    /\ all_defs' = parsed_defs
    /\ selected_def_name' = ""
    /\ expanded_xml' = << >>
    /\ inheritance_chain' = << >>
    /\ last_scan' = ScanOf(parsed_defs, Keys(all_defs) \ Keys(parsed_defs) # {})
    /\ UNCHANGED notInherit
    /\ UNCHANGED << search_query, e_pc, chain, current_parent >>

\* An edit of the search box that leaves inheritance_chain as it is.
EditSearchQuery_KeepChain(query) ==
    /\ e_pc = "idle"
    /\ query # search_query
    /\ search_query' = query
    /\ selected_def_name' = ""
    /\ expanded_xml' = << >>
    /\ last_scan' = NoScan
    /\ UNCHANGED notInherit
    /\ UNCHANGED << all_defs, inheritance_chain, e_pc, chain, current_parent >>

\* inheritance.rs:79-85: the search box is edited.
EditSearchQuery(query) ==
    /\ e_pc = "idle"
    /\ query # search_query
    /\ search_query' = query
    /\ selected_def_name' = ""
    /\ expanded_xml' = << >>
    /\ inheritance_chain' = << >>
    /\ last_scan' = NoScan
    /\ UNCHANGED notInherit
    /\ UNCHANGED << all_defs, e_pc, chain, current_parent >>

\* inheritance.rs:113-118 and 217-224: a listed Def is clicked, and
\* expand_inheritance runs up to its loop.
SelectDef(def_name) ==
    /\ e_pc = "idle"
    /\ def_name \in Keys(all_defs)
    /\ QueryMatches(def_name, search_query)
    /\ selected_def_name' = def_name
    /\ inheritance_chain' = << >>
    /\ expanded_xml' = << >>
    /\ chain' = << Get(all_defs, def_name).def_name >>
    /\ current_parent' = Get(all_defs, def_name).parent_name
    /\ e_pc' = "walk"
    /\ last_scan' = NoScan
    /\ UNCHANGED notInherit
    /\ UNCHANGED << all_defs, search_query >>

MaxChain == 5

\* inheritance.rs:226-233: one turn of the while-let loop.
WalkParent ==
    /\ e_pc = "walk"
    /\ current_parent # None
    /\ Len(chain) < MaxChain
    /\ chain' = Append(chain, current_parent)
    /\ IF current_parent \in Keys(all_defs)
       THEN /\ current_parent' = Get(all_defs, current_parent).parent_name
            /\ e_pc' = "walk"
       ELSE /\ current_parent' = current_parent
            /\ e_pc' = "finish"
    /\ UNCHANGED notInherit
    /\ UNCHANGED << all_defs, selected_def_name, search_query, inheritance_chain,
                    expanded_xml, last_scan >>

\* inheritance.rs:226: the loop ends on current_parent = None.
WalkEnd ==
    /\ e_pc = "walk"
    /\ current_parent = None
    /\ e_pc' = "finish"
    /\ UNCHANGED notInherit
    /\ UNCHANGED << all_defs, selected_def_name, search_query, inheritance_chain,
                    expanded_xml, chain, current_parent, last_scan >>

\* Reverse left out.
Reverse_Identity(q) == q

\* Vec::reverse.
RECURSIVE Reverse(_)
Reverse(q) == IF q = << >> THEN << >> ELSE Append(Reverse(Tail(q)), Head(q))

\* inheritance.rs:243-245: the nodes of one record folded into the map.
RECURSIVE FoldNodes(_, _, _)
FoldNodes(merged, nodes, i) ==
    IF i > Len(nodes) THEN merged
    ELSE FoldNodes(MergeNode(merged, nodes[i]), nodes, i + 1)

\* inheritance.rs:241-247: the records of the chain folded, root first.
RECURSIVE FoldChain(_, _, _, _)
FoldChain(merged, defs, names, i) ==
    IF i > Len(names) THEN merged
    ELSE FoldChain(
             IF names[i] \in Keys(defs)
             THEN FoldNodes(merged, Get(defs, names[i]).raw_nodes, 1)
             ELSE merged,
             defs, names, i + 1)

\* inheritance.rs:235-255: the chain is reversed and stored, the nodes are
\* merged and the XML is generated.
FinishExpand ==
    /\ e_pc = "finish"
    /\ inheritance_chain' = Reverse(chain)
    /\ expanded_xml' =
          GenerateExpandedXml(selected_def_name,
                              Get(all_defs, selected_def_name).def_type,
                              FoldChain(<< >>, all_defs, Reverse(chain), 1))
    /\ e_pc' = "idle"
    /\ chain' = << >>
    /\ current_parent' = None
    /\ UNCHANGED notInherit
    /\ UNCHANGED << all_defs, selected_def_name, search_query, last_scan >>

InheritNext ==
    \/ \E parsed_defs \in ScanInputs : ScanAllDefs(parsed_defs)
    \/ \E query \in Queries : EditSearchQuery(query)
    \/ \E def_name \in DefNames : SelectDef(def_name)
    \/ WalkParent
    \/ WalkEnd
    \/ FinishExpand

(***************************************************************************)
(* inheritance.rs: parse_def_data, as the loop over the reader's events.   *)
(***************************************************************************)
ParseInit ==
    [results |-> << >>, inside_defs |-> FALSE, def_depth |-> 0,
     current_def_type |-> None, current_def_name |-> None,
     current_parent_name |-> None, is_abstract |-> FALSE,
     node_stack |-> << >>, root_nodes |-> << >>]

\* inheritance.rs:346-357: the loop over the attributes of a record root.
RECURSIVE DefAttributes(_, _, _)
DefAttributes(st, attrs, i) ==
    IF i > Len(attrs) THEN st
    ELSE LET key == attrs[i][1]
             value == attrs[i][2]
         IN  DefAttributes(
                 IF key = "Abstract" /\ value = "True"
                 THEN [st EXCEPT !.is_abstract = TRUE]
                 ELSE IF key = "ParentName"
                 THEN [st EXCEPT !.current_parent_name = value]
                 ELSE IF key = "Name"
                 THEN [st EXCEPT !.current_def_name = value]
                 ELSE st,
                 attrs, i + 1)

\* inheritance.rs:399-403 and 448-452: a finished node goes to the children
\* of the node on top of the stack, or to root_nodes.
Attach(st, node) ==
    IF st.node_stack # << >>
    THEN [st EXCEPT !.node_stack[Len(st.node_stack)].children = Append(@, node)]
    ELSE [st EXCEPT !.root_nodes = Append(@, node)]

\* inheritance.rs:330-379.
ParseStart(st, e) ==
    IF e.name = "Defs"
    THEN [st EXCEPT !.inside_defs = TRUE]
    ELSE IF st.inside_defs /\ st.def_depth = 0 /\ EndsWithDef(e.name)
    THEN DefAttributes(
             [st EXCEPT !.current_def_type = e.name,
                        !.def_depth = 1,
                        !.current_def_name = None,
                        !.current_parent_name = None,
                        !.is_abstract = FALSE,
                        !.root_nodes = << >>,
                        !.node_stack = << >>],
             e.attrs, 1)
    ELSE IF st.def_depth > 0
    THEN [st EXCEPT !.def_depth = @ + 1,
                    !.node_stack = Append(@, XmlNode(e.name, e.attrs, << >>, None))]
    ELSE st

\* inheritance.rs:380-405.
ParseEmpty(st, e) ==
    IF st.def_depth > 0
    THEN Attach(st, XmlNode(e.name, e.attrs, << >>, None))
    ELSE st

\* ParseText that takes the name from the text of any element.
ParseText_AnyTag(st, e) ==
    IF st.def_depth > 0 /\ st.node_stack # << >> /\ Trim(e.text) # ""
    THEN LET top == Len(st.node_stack)
             named == IF st.current_def_name = None
                      THEN [st EXCEPT !.current_def_name = Trim(e.text)]
                      ELSE st
         IN  [named EXCEPT !.node_stack[top].text = Trim(e.text)]
    ELSE st

\* inheritance.rs:406-422.
ParseText(st, e) ==
    IF st.def_depth > 0 /\ st.node_stack # << >> /\ Trim(e.text) # ""
    THEN LET top == Len(st.node_stack)
             named == IF st.node_stack[top].tag = "defName"
                         /\ st.current_def_name = None
                      THEN [st EXCEPT !.current_def_name = Trim(e.text)]
                      ELSE st
         IN  [named EXCEPT !.node_stack[top].text = Trim(e.text)]
    ELSE st

\* inheritance.rs:423-459.
ParseEnd(st, e) ==
    LET closed ==
            IF st.def_depth > 0 /\ EndsWithDef(e.name)
            THEN LET st1 == [st EXCEPT !.def_depth = @ - 1]
                 IN  IF st1.def_depth = 0 /\ st1.current_def_name # None
                     THEN [st1 EXCEPT !.results = Append(@,
                              MkDefData(st1.current_def_name,
                                        st1.current_parent_name,
                                        st1.is_abstract,
                                        st1.current_def_type,
                                        st1.root_nodes))]
                     ELSE st1
            ELSE IF st.def_depth > 0
            THEN LET st1 == [st EXCEPT !.def_depth = @ - 1]
                 IN  IF st1.node_stack # << >>
                     THEN Attach(
                              [st1 EXCEPT !.node_stack =
                                  SubSeq(@, 1, Len(@) - 1)],
                              st1.node_stack[Len(st1.node_stack)])
                     ELSE st1
            ELSE st
    IN  IF e.name = "Defs" THEN [closed EXCEPT !.inside_defs = FALSE] ELSE closed

\* One turn of the loop at inheritance.rs:328-465 on event e.
ParseEvent(st, e) ==
    CASE e.type = "Start" -> ParseStart(st, e)
      [] e.type = "Empty" -> ParseEmpty(st, e)
      [] e.type = "Text"  -> ParseText(st, e)
      [] e.type = "End"   -> ParseEnd(st, e)
      [] OTHER -> st

\* inheritance.rs:328-467: the loop over the events of a well-formed file,
\* from the i-th, and the records parse_def_data returns for the file.
RECURSIVE ParseLoop(_, _, _)
ParseLoop(st, events, i) ==
    IF i > Len(events) THEN st
    ELSE ParseLoop(ParseEvent(st, events[i]), events, i + 1)

(***************************************************************************)
(* The XML documents parse_def_data is run on: element trees, and the      *)
(* events the reader reports for them.                                     *)
(***************************************************************************)
\* <tag attrs>text kids</tag>, and the empty-element tag <tag attrs/>.
El(tag, attrs, text, kids) ==
    [tag |-> tag, attrs |-> attrs, text |-> text, kids |-> kids, empty_tag |-> FALSE]
ElEmpty(tag, attrs) ==
    [tag |-> tag, attrs |-> attrs, text |-> None, kids |-> << >>, empty_tag |-> TRUE]

RECURSIVE Events(_)
RECURSIVE EventsOfAll(_, _)
Events(el) ==
    IF el.empty_tag THEN << EmptyEv(el.tag, el.attrs) >>
    ELSE << StartEv(el.tag, el.attrs) >>
         \o (IF el.text # None THEN << TextEv(el.text) >> ELSE << >>)
         \o EventsOfAll(el.kids, 1)
         \o << EndEv(el.tag) >>
EventsOfAll(els, i) ==
    IF i > Len(els) THEN << >> ELSE Events(els[i]) \o EventsOfAll(els, i + 1)

DefNameEl(name) == El("defName", << >>, name, << >>)

\* The direct children a record root is given.
Fields ==
    { DefNameEl("Leaf"),
      El("label", << >>, "x", << >>),
      El("label", << KV >>, "y", << >>),
      ElEmpty("label", << >>),
      El("tags", << >>, None, << El("li", << >>, "x", << >>),
                                 El("li", << >>, "y", << >>) >>),
      El("tags", << >>, None, << DefNameEl("Mid") >>),
      El("stuffDef", << >>, "x", << >>),
      El("comps", << >>, None, << El("stuffDef", << >>, "x", << >>) >>),
      El("comps", << >>, None,
         << El("ThingDef", << >>, None, << DefNameEl("Mid") >>) >>) }

RootAttrs ==
    { << >>,
      << << "Name", "Root" >> >>,
      << << "Name", "Root" >>, << "Abstract", "True" >> >>,
      << << "ParentName", "Root" >> >> }

MaxFields == 2

RecordEls ==
    { El("ThingDef", a, None, kids) :
          a \in RootAttrs, kids \in SeqsUpTo(Fields, MaxFields) }

\* A record root directly under <Defs>, or inside a <Group> under <Defs>.
TopItems == RecordEls \cup { El("Group", << >>, None, << r >>) : r \in RecordEls }

Trailer == El("ThingDef", << >>, None, << DefNameEl("Mid") >>)

\* The children of <Defs>: one item, or one item and the record Mid.
Documents == { << t >> : t \in TopItems } \cup { << t, Trailer >> : t \in TopItems }

DocEvents(items) == Events(El("Defs", << >>, None, items))

\* parse_def_data on the well-formed file with the children `items` of <Defs>.
ParseDefData(items) == ParseLoop(ParseInit, DocEvents(items), 1).results

(***************************************************************************)
(* parse_def_data run on a document, and a record it returned selected     *)
(* after the scan.                                                         *)
(***************************************************************************)

ParseDocInit ==
    /\ p_items \in Documents
    /\ p_i = 1
    /\ p_st = ParseInit
    /\ p_pc = "loop"
    /\ p_selected = ""
    /\ p_xml = << >>

ParseParked ==
    /\ p_items = << >>
    /\ p_i = 1
    /\ p_st = ParseInit
    /\ p_pc = "loop"
    /\ p_selected = ""
    /\ p_xml = << >>

\* inheritance.rs:328-465: one event is read and handled.
ReadEvent ==
    /\ p_pc = "loop"
    /\ p_i <= Len(DocEvents(p_items))
    /\ p_st' = ParseEvent(p_st, DocEvents(p_items)[p_i])
    /\ p_i' = p_i + 1
    /\ UNCHANGED notParse
    /\ UNCHANGED << p_items, p_pc, p_selected, p_xml >>

\* inheritance.rs:460 and 467: Eof ends the loop and Ok(results) is returned.
ReadEnd ==
    /\ p_pc = "loop"
    /\ p_i > Len(DocEvents(p_items))
    /\ p_pc' = "done"
    /\ UNCHANGED notParse
    /\ UNCHANGED << p_items, p_i, p_st, p_selected, p_xml >>

\* ReadErr with the error handed to the caller: no record is returned.
ReadErr_Fails ==
    /\ p_pc = "loop"
    /\ p_i <= Len(DocEvents(p_items))
    /\ p_pc' = "done"
    /\ p_st' = [p_st EXCEPT !.results = << >>]
    /\ UNCHANGED notParse
    /\ UNCHANGED << p_items, p_i, p_selected, p_xml >>

\* inheritance.rs:461 and 467: the file is malformed where the event p_i
\* would start, the reader reports Err(_), the loop ends and Ok(results) is
\* returned.  p_i stays at the event that was not read.
ReadErr ==
    /\ p_pc = "loop"
    /\ p_i <= Len(DocEvents(p_items))
    /\ p_pc' = "done"
    /\ UNCHANGED notParse
    /\ UNCHANGED << p_items, p_i, p_st, p_selected, p_xml >>

\* inheritance.rs:206-208: HashMap::insert of each parsed record.
RECURSIVE InsertAll(_, _, _)
InsertAll(defs, parsed_defs, i) ==
    IF i > Len(parsed_defs) THEN defs
    ELSE InsertAll(
             { d \in defs : d.def_name # parsed_defs[i].def_name }
                 \cup { parsed_defs[i] },
             parsed_defs, i + 1)

\* scan_all_defs over the one file, then a listed record without parent is
\* clicked: expand_inheritance with the chain [def_name].
SelectParsed(def_name) ==
    LET defs == InsertAll({}, p_st.results, 1)
    IN  /\ p_pc = "done"
        /\ def_name \in Keys(defs)
        /\ Get(defs, def_name).parent_name = None
        /\ p_selected' = def_name
        /\ p_xml' = GenerateExpandedXml(def_name, Get(defs, def_name).def_type,
                        FoldChain(<< >>, defs, Reverse(<< def_name >>), 1))
        /\ p_pc' = "shown"
        /\ UNCHANGED notParse
        /\ UNCHANGED << p_items, p_i, p_st >>

ParseNext ==
    \/ ReadEvent
    \/ ReadEnd
    \/ ReadErr
    \/ \E def_name \in DefNames : SelectParsed(def_name)

(***************************************************************************)
(* extract_tag_values run on a file: <Defs> with one record, whose         *)
(* children are x_fields.                                                  *)
(***************************************************************************)
\* The children the record of the file is given.
XFields ==
    { El("label", << >>, "gun", << >>),
      El("Label", << >>, "axe", << >>),
      El("desc", << >>, "d", << >>),
      El("li", << >>, "z", << >>),
      El("tags", << >>, None, << El("li", << >>, "a", << >>),
                                 El("li", << >>, " b ", << >>) >>),
      El("tags", << >>, "t", << El("other", << >>, "v", << >>) >>) }

MaxXFields == 2

\* The tag names the user asks for.
XTags == {"label", "tags", "Label"}

XEvents(fields) ==
    Events(El("Defs", << >>, None, << El("ThingDef", << >>, None, fields) >>))

ExtractRunInit ==
    /\ x_fields \in SeqsUpTo(XFields, MaxXFields)
    /\ x_tag \in XTags
    /\ x_i = 1
    /\ x_st = ExtractInit
    /\ x_pc = "loop"

ExtractParked ==
    /\ x_fields = << >>
    /\ x_tag = ""
    /\ x_i = 1
    /\ x_st = ExtractInit
    /\ x_pc = "loop"

\* xml_parser.rs:22-65: one event is read and handled.
ExtractStep ==
    /\ x_pc = "loop"
    /\ x_i <= Len(XEvents(x_fields))
    /\ x_st' = ExtractEvent(x_st, XEvents(x_fields)[x_i], x_tag)
    /\ x_i' = x_i + 1
    /\ UNCHANGED notExtract
    /\ UNCHANGED << x_fields, x_tag, x_pc >>

\* xml_parser.rs:61 and 68: Eof ends the loop and Ok(values) is returned.
ExtractEof ==
    /\ x_pc = "loop"
    /\ x_i > Len(XEvents(x_fields))
    /\ x_pc' = "done"
    /\ UNCHANGED notExtract
    /\ UNCHANGED << x_fields, x_tag, x_i, x_st >>

\* xml_parser.rs:62 and 68: the file is malformed where the event x_i would
\* start; the error is ignored and Ok(values) is returned.
ExtractErr ==
    /\ x_pc = "loop"
    /\ x_i <= Len(XEvents(x_fields))
    /\ x_pc' = "done"
    /\ UNCHANGED notExtract
    /\ UNCHANGED << x_fields, x_tag, x_i, x_st >>

ExtractNext ==
    \/ ExtractStep
    \/ ExtractEof
    \/ ExtractErr

(***************************************************************************)
(* generate_node_xml called on a node, with `xml` empty.                   *)
(***************************************************************************)
\* The nodes the serializer is called on: those of the merge, their
\* children, and nodes nested one level deeper.
GenNodes ==
    NodeUniverse \cup ListChildren
    \cup { LiText(None), LiAttr(None, << KV >>), LiStruct("a"),
           XmlNode("label", << KV >>, << >>, None),
           Tags(<< LiAttr(None, << KV >>), LiStruct("a") >>),
           XmlNode("comps", << WV >>, << Tags(<< LiText("x") >>) >>, "y"),
           XmlNode("comps", << >>, << Tags(<< LiText("x") >>), Comps("a") >>, None) }

MaxIndent == 2

GenInit ==
    /\ g_node \in GenNodes
    /\ g_indent \in 0..MaxIndent
    /\ g_xml = << >>
    /\ g_pc = "call"

GenParked ==
    /\ g_node = Tags(<< >>)
    /\ g_indent = 0
    /\ g_xml = << >>
    /\ g_pc = "call"

\* generate_node_xml(&mut xml, node, indent_level).
GenerateNode ==
    /\ g_pc = "call"
    /\ g_xml' = GenerateNodeXml(g_node, g_indent)
    /\ g_pc' = "done"
    /\ UNCHANGED notGen
    /\ UNCHANGED << g_node, g_indent >>

(***************************************************************************)
(* Specifications.                                                         *)
(***************************************************************************)

\* The tag finder: ui frames interleaved with the search threads.
InitFinder ==
    FinderInit /\ MergeParked /\ InheritInit /\ ParseParked /\ ExtractParked /\ GenParked
Spec == InitFinder /\ [][FinderNext]_vars

\* A frame in which the settings and the tag box are as the tab holds them:
\* of ui, only check_search_results acts.
CheckFrame == Ui(tab.search_path, NoEdit)

\* The tag finder under fair scheduling: a thread that can take its next
\* step takes it (the OS schedules every runnable thread), and the ui keeps
\* running frames (the thread calls ctx.request_repaint() after it stored,
\* finder.rs:126), each of which calls check_search_results.
FinderFairness ==
    /\ \A t \in SearchIds :
           /\ WF_vars(\E f \in XmlFiles : WorkerFile(t, f))
           /\ WF_vars(WorkerCheck(t))
           /\ WF_vars(WorkerStore(t))
    /\ WF_vars(CheckFrame)
SpecFair == InitFinder /\ [][FinderNext]_vars /\ FinderFairness

\* merge_node folded over the raw_nodes of a chain.
InitMerge ==
    MergeInit /\ FinderInit /\ InheritInit /\ ParseParked /\ ExtractParked /\ GenParked
SpecMerge == InitMerge /\ [][MergeStep]_vars

\* The inheritance tab: scans, the search box and selections.
InitInherit ==
    InheritInit /\ FinderInit /\ MergeParked /\ ParseParked /\ ExtractParked /\ GenParked
SpecInherit == InitInherit /\ [][InheritNext]_vars

\* parse_def_data on one file, then the expansion of a record it returned.
InitParse ==
    ParseDocInit /\ FinderInit /\ MergeParked /\ InheritInit /\ ExtractParked /\ GenParked
SpecParse == InitParse /\ [][ParseNext]_vars

\* extract_tag_values on one file.
InitExtract ==
    ExtractRunInit /\ FinderInit /\ MergeParked /\ InheritInit /\ ParseParked
                   /\ GenParked
SpecExtract == InitExtract /\ [][ExtractNext]_vars

\* generate_node_xml on one node.
InitGen ==
    GenInit /\ FinderInit /\ MergeParked /\ InheritInit /\ ParseParked
            /\ ExtractParked
SpecGen == InitGen /\ [][GenerateNode]_vars

(***************************************************************************)
(* Claims about the tag finder (Spec).                                     *)
(***************************************************************************)

\* The values extract_tag_values finds for `tag` over every enumerated file.
AllValues(tag) == UNION {FileValues(f, tag) : f \in XmlFiles}

\* C1: the result of a search that a later search_xml_files cancelled while
\* its thread was still running is never written into the search_results
\* slot and never copied into the displayed results.
C1_StaleNeverPublished ==
    /\ ~search_results.origin.stale
    /\ ~results_from.stale

\* C9: every stored SearchResult was computed over all enumerated files, and
\* a search whose pipeline skipped a file on seeing its cancel flag set stores
\* nothing.
C9_NoPartialResults ==
    /\ search_results.some =>
          /\ search_results.values = SortedSeq(AllValues(search_results.origin.tag))
          /\ search_results.xml_count = Cardinality(XmlFiles)
          /\ ~search_results.origin.skipped
    /\ results_from.by # 0 =>
          /\ tab.results = SortedSeq(AllValues(results_from.tag))
          /\ ~results_from.skipped
    /\ \A t \in SearchIds : threads[t].skipped => threads[t].pc # "store"

\* C9 witness: one search ended its pipeline with some files read and some
\* skipped, while another search's result is stored.
C9_Witness ==
    /\ search_results.some
    /\ \E t \in SearchIds :
          /\ threads[t].skipped
          /\ threads[t].values # {}
          /\ threads[t].todo = {}

(***************************************************************************)
(* Claims about merge_node (SpecMerge).                                    *)
(***************************************************************************)

\* The node the last merge_node call folded, the entry it found for the
\* node's tag, and the entry it left.
Folded == m_i > 1
LastNode == m_nodes[m_i - 1]
HadEntry == Folded /\ MapHas(m_prev, LastNode.tag)
EntryBefore == MapGet(m_prev, LastNode.tag)
EntryAfter == MapGet(merged_nodes, LastNode.tag)

HasLi(n) == \E c \in 1..Len(n.children) : n.children[c].tag = "li"
LiOf(n) == SelectSeq(n.children, IsLi)

\* Two list items with the same text and the same attributes.
SameItem(a, b) == a.text = b.text /\ a.attributes = b.attributes

\* The items of `incoming`, in order, that equal no item of `present` and no
\* earlier item of `incoming`.
RECURSIVE NewItems(_, _, _)
NewItems(present, incoming, i) ==
    IF i > Len(incoming) THEN << >>
    ELSE LET fresh ==
                 /\ \A p \in 1..Len(present) : ~SameItem(present[p], incoming[i])
                 /\ \A j \in 1..(i - 1) : ~SameItem(incoming[j], incoming[i])
         IN  (IF fresh THEN << incoming[i] >> ELSE << >>)
                 \o NewItems(present, incoming, i + 1)

NoRepeatedItem(items) ==
    \A a, b \in 1..Len(items) : a # b => ~SameItem(items[a], items[b])

\* C5: when the node folded has li children and its tag already had an entry,
\* the entry's li children afterwards are the li children it had, followed by
\* the node's li children that were not yet present (same text and
\* attributes); an item present once on both sides stays once.
C5_ListUnion ==
    (HadEntry /\ HasLi(LastNode)) =>
        /\ MapHas(merged_nodes, LastNode.tag)
        /\ LiOf(EntryAfter) =
               LiOf(EntryBefore) \o NewItems(LiOf(EntryBefore), LiOf(LastNode), 1)
        /\ NoRepeatedItem(LiOf(EntryBefore)) => NoRepeatedItem(LiOf(EntryAfter))

\* C5 witness: <li>x</li> folded with <li>x</li><li>y</li> gives x then y.
C5_Witness ==
    /\ HadEntry
    /\ LiOf(EntryBefore) = << LiText("x") >>
    /\ LiOf(LastNode) = << LiText("x"), LiText("y") >>
    /\ LiOf(EntryAfter) = << LiText("x"), LiText("y") >>

\* C6: when the node folded has no li child and its tag already had an entry,
\* the entry afterwards is the node itself: text, attributes and children.
C6_WholeValueReplace ==
    (HadEntry /\ ~HasLi(LastNode)) =>
        /\ MapHas(merged_nodes, LastNode.tag)
        /\ EntryAfter = LastNode

\* C6 witness: an empty node folded onto an entry with attributes and li
\* children clears them.
C6_Witness ==
    /\ HadEntry
    /\ HasLi(EntryBefore)
    /\ EntryBefore.attributes # << >>
    /\ LastNode.children = << >>
    /\ LastNode.text = None
    /\ LastNode.attributes = << >>
    /\ EntryAfter = LastNode

\* The number of times node n occurs in a sequence of nodes.
Count(nodes, n) == Cardinality({i \in 1..Len(nodes) : nodes[i] = n})

\* C7: folding the nodes of a single record into an empty mapping yields
\* exactly those nodes, each unchanged and none lost, combined or overwritten.
C7_IdempotentMerge ==
    (m_i > Len(m_nodes) /\ m_first = Len(m_nodes)) =>
        /\ Len(merged_nodes) = Len(m_nodes)
        /\ \A i \in 1..Len(m_nodes) :
               Count(merged_nodes, m_nodes[i]) = Count(m_nodes, m_nodes[i])

(***************************************************************************)
(* Claims about the inheritance tab (SpecInherit).                         *)
(***************************************************************************)

\* expand_inheritance has run to its end for the selected record.
Expanded == e_pc = "idle" /\ selected_def_name # ""
Selected == Get(all_defs, selected_def_name)

\* C2: when the parent links from the selected record lead back to a record
\* already visited, expand_inheritance stops with a cycle failure: the chain
\* it builds never grows beyond one name per indexed record, plus one for a
\* parent that is not indexed.
C2_CycleSafety == Len(chain) <= Cardinality(Keys(all_defs)) + 1

\* C3: a selected record whose parent_name is set but is no key of the index
\* gets the one-element chain holding its own name.
C3_MissingParent ==
    (/\ Expanded
     /\ Selected.parent_name # None
     /\ Selected.parent_name \notin Keys(all_defs))
        => inheritance_chain = << selected_def_name >>

\* The parent links from `name` all resolve in the index and end at a record
\* without parent within `fuel` records (so they hold no cycle).
RECURSIVE Resolves(_, _)
Resolves(name, fuel) ==
    /\ fuel > 0
    /\ name \in Keys(all_defs)
    /\ \/ Get(all_defs, name).parent_name = None
       \/ Resolves(Get(all_defs, name).parent_name, fuel - 1)

\* C4: for a selected record whose parent links all resolve without a cycle,
\* the chain is root-first: its first element has no parent_name, each element
\* is the parent_name of the next, and the last is the selected record.
C4_ChainOrdering ==
    (Expanded /\ Resolves(selected_def_name, Cardinality(DefNames))) =>
        /\ inheritance_chain # << >>
        /\ inheritance_chain[Len(inheritance_chain)] = selected_def_name
        /\ Get(all_defs, inheritance_chain[1]).parent_name = None
        /\ \A i \in 1..(Len(inheritance_chain) - 1) :
               Get(all_defs, inheritance_chain[i + 1]).parent_name
                   = inheritance_chain[i]

\* C4 witness: Root -> Mid -> Leaf resolved for Leaf.
C4_Witness ==
    /\ Expanded
    /\ selected_def_name = "Leaf"
    /\ Resolves("Leaf", Cardinality(DefNames))
    /\ inheritance_chain = << "Root", "Mid", "Leaf" >>

(***************************************************************************)
(* Claims about parse_def_data and the expansion of its records (SpecParse)*)
(***************************************************************************)

\* The reader came to Eof: the file was well-formed.
WellFormed == p_i > Len(DocEvents(p_items))

\* The (tag, attributes, text) of the elements below `el`, in document order.
RECURSIVE TuplesBelow(_)
RECURSIVE TuplesOfAll(_, _)
TuplesBelow(el) == TuplesOfAll(el.kids, 1)
TuplesOfAll(els, i) ==
    IF i > Len(els) THEN << >>
    ELSE << << els[i].tag, els[i].attrs, els[i].text >> >>
             \o TuplesBelow(els[i]) \o TuplesOfAll(els, i + 1)

\* The (tag, attributes, text) of the elements the lines below the root's
\* opening line write, in the order of the text.
RECURSIVE EmittedTuples(_, _)
EmittedTuples(lines, i) ==
    IF i > Len(lines) THEN << >>
    ELSE (IF lines[i].kind \in {"simple", "empty", "open"}
          THEN << << lines[i].tag, lines[i].attributes, lines[i].text >> >>
          ELSE << >>)
             \o EmittedTuples(lines, i + 1)

NotDefName(t) == t[1] # "defName"

\* A record whose direct children are plain fields with distinct tags.
PlainRecord(el) ==
    /\ el.tag = "ThingDef"
    /\ \A i \in 1..Len(el.kids) : el.kids[i].tag \in {"label", "tags"}
    /\ \A i, j \in 1..Len(el.kids) : i # j => el.kids[i].tag # el.kids[j].tag
    /\ \A i \in 1..Len(el.kids) :
           \A k \in 1..Len(el.kids[i].kids) : el.kids[i].kids[k].tag = "li"

\* C8: for a record with no ancestors, the expanded XML writes the record's
\* (tag, attributes, text) tuples in the order of the original document (the
\* identity line apart).
C8_RoundTripShape ==
    (p_pc = "shown" /\ WellFormed /\ Len(p_items) = 1 /\ PlainRecord(p_items[1])) =>
        SelectSeq(EmittedTuples(p_xml, 2), NotDefName)
            = SelectSeq(TuplesBelow(p_items[1]), NotDefName)

\* C10: only a direct child of <Defs> is a record root: parse_def_data
\* returns no more records than <Defs> has direct children whose tag ends in
\* Def.
C10_TopLevelOnly ==
    Len(p_st.results)
        <= Cardinality({ i \in 1..Len(p_items) : EndsWithDef(p_items[i].tag) })

\* The XmlNode tree of an element, and of a sequence of elements.
RECURSIVE TreeOf(_)
RECURSIVE TreesOf(_, _)
TreeOf(el) == XmlNode(el.tag, el.attrs, TreesOf(el.kids, 1), el.text)
TreesOf(els, i) ==
    IF i > Len(els) THEN << >>
    ELSE << TreeOf(els[i]) >> \o TreesOf(els, i + 1)

\* The elements of the file whose tag ends in Def and that are children of
\* <Defs> or of a <Group> under it.
RecordRoots ==
    { p_items[i] : i \in { j \in 1..Len(p_items) : EndsWithDef(p_items[j].tag) } }
    \cup { p_items[i].kids[1] :
               i \in { j \in 1..Len(p_items) : p_items[j].tag = "Group" } }

\* C11: every record parse_def_data returns for a well-formed file has as
\* raw_nodes the trees of the direct child elements of a record root, in
\* document order, same-tag siblings apart, descendants named ...Def included.
C11_FaithfulTree ==
    (p_pc = "done" /\ WellFormed) =>
        \A k \in 1..Len(p_st.results) :
            \E r \in RecordRoots :
                p_st.results[k].raw_nodes = TreesOf(r.kids, 1)

\* The element carries the attribute key="value".
HasAttr(el, key, value) ==
    \E a \in 1..Len(el.attrs) : el.attrs[a] = << key, value >>

\* The texts of the defName elements that are direct children of `el`.
DefNameTexts(el) ==
    { el.kids[k].text : k \in { j \in 1..Len(el.kids) : el.kids[j].tag = "defName" } }

\* The file holds one record root, directly under <Defs>, and it was returned.
OneRecordReturned ==
    /\ p_pc = "done" /\ WellFormed
    /\ Len(p_items) = 1 /\ EndsWithDef(p_items[1].tag)
    /\ Len(p_st.results) = 1

\* C12: a record that is not abstract and has a defName child is named by the
\* text of that child, also when it carries a Name attribute.
C12_RecordIdentity ==
    (/\ OneRecordReturned
     /\ ~HasAttr(p_items[1], "Abstract", "True")
     /\ DefNameTexts(p_items[1]) # {})
        => p_st.results[1].def_name \in DefNameTexts(p_items[1])

\* A defName element with a text is among the descendants of `el`.
RECURSIVE HasDefNameBelow(_)
HasDefNameBelow(el) ==
    \E k \in 1..Len(el.kids) :
        \/ el.kids[k].tag = "defName" /\ el.kids[k].text # None
        \/ HasDefNameBelow(el.kids[k])

\* The first record root of the file, directly under <Defs>, has no Name
\* attribute and no defName element with a text.
FirstRecordUnnamed ==
    /\ EndsWithDef(p_items[1].tag)
    /\ \A a \in 1..Len(p_items[1].attrs) : p_items[1].attrs[a][1] # "Name"
    /\ ~HasDefNameBelow(p_items[1])

\* C13: a record root with neither a Name attribute nor a defName element
\* with a text yields no DefData, and the records after it in the file are
\* returned as they are without it.
C13_MissingIdentity ==
    (p_pc = "done" /\ WellFormed /\ FirstRecordUnnamed) =>
        /\ Len(p_st.results) = Len(p_items) - 1
        /\ p_st.results = ParseDefData(Tail(p_items))

\* An unnamed record with children is followed by the record Mid, which is
\* returned alone.
C13_Witness ==
    /\ p_pc = "done" /\ WellFormed /\ FirstRecordUnnamed
    /\ Len(p_items) = 2 /\ p_items[1].kids # << >>
    /\ Len(p_st.results) = 1 /\ p_st.results[1].def_name = "Mid"

\* The reader reported an error in place of the event p_i.
Malformed == p_pc = "done" /\ ~WellFormed

\* The children of <Defs> whose end tag was read before the error: the j-th
\* ends at event 1 + (the number of events of the first j children).
ClosedItems ==
    SubSeq(p_items, 1,
           Cardinality({ j \in 1..Len(p_items) :
               1 + Len(EventsOfAll(SubSeq(p_items, 1, j), 1)) < p_i }))

AllRecordRoots == \A j \in 1..Len(p_items) : EndsWithDef(p_items[j].tag)

\* C14: when the reader reports an error partway through a file of records,
\* parse_def_data returns Ok with the records of the roots closed before the
\* error, as if the file ended there; the record open at the error and what
\* follows are not returned.
C14_MalformedXml ==
    (Malformed /\ AllRecordRoots) =>
        /\ Len(p_st.results) <= Len(ClosedItems)
        /\ p_st.results = ParseDefData(ClosedItems)

\* The error comes inside the second record, after its defName was read, and
\* the first record is returned alone.
C14_Witness ==
    /\ Malformed /\ AllRecordRoots
    /\ Len(p_items) = 2 /\ Len(ClosedItems) = 1
    /\ p_st.current_def_name = "Mid"
    /\ Len(p_st.results) = 1 /\ p_st.results[1].def_name # "Mid"

(***************************************************************************)
(* Claims about scans and selections in the inheritance tab (SpecInherit). *)
(***************************************************************************)

\* C15: when scan_all_defs has completed, the index holds a record for a
\* name exactly if a record with that name was parsed in this scan, and the
\* selected name, the inheritance chain and the expanded XML are empty.
C15_RescanReplaces ==
    last_scan.fresh =>
        /\ Keys(all_defs) = Keys(last_scan.parsed)
        /\ selected_def_name = ""
        /\ inheritance_chain = << >>
        /\ expanded_xml = << >>

\* A scan has completed that parsed some record and not every name the
\* index held before it.
C15_Witness ==
    /\ last_scan.fresh /\ last_scan.replaced
    /\ last_scan.parsed # {}
    /\ all_defs = last_scan.parsed

\* C16: the record expand_inheritance is run on, the one selected from the
\* Def list, is never abstract.
C16_AbstractNeverLeaf ==
    e_pc # "idle" => ~Get(all_defs, selected_def_name).is_abstract

(***************************************************************************)
(* Claims about extract_tag_values (SpecExtract).                          *)
(***************************************************************************)

\* The event the loop handled last.
LastEvent == XEvents(x_fields)[x_i - 1]

\* C17: immediately after the end tag of an element whose tag matches the
\* requested name case-insensitively, the inside-target flag is false.
C17_FlagReset ==
    (/\ x_i > 1
     /\ LastEvent.type = "End"
     /\ ToLowercase(LastEvent.name) = ToLowercase(x_tag))
        => ~x_st.inside_target_tag

\* The trimmed texts that sit directly inside a target element, or directly
\* inside an li below a target element, among the elements `els`.
RECURSIVE ScopedTexts(_, _)
ScopedTexts(el, in_target) ==
    LET is_target == ToLowercase(el.tag) = ToLowercase(x_tag)
    IN  (IF el.text # None /\ (is_target \/ (el.tag = "li" /\ in_target))
         THEN { Trim(el.text) } ELSE {})
        \cup UNION { ScopedTexts(el.kids[k], in_target \/ is_target) :
                         k \in 1..Len(el.kids) }

\* Every element that matches the requested name matches it letter for letter.
RECURSIVE ExactCase(_)
ExactCase(el) ==
    /\ ToLowercase(el.tag) = ToLowercase(x_tag) => el.tag = x_tag
    /\ \A k \in 1..Len(el.kids) : ExactCase(el.kids[k])

\* C18: every value extract_tag_values returns for a well-formed file is a
\* text directly inside a target element or inside an li nested in one.
C18_ExtractorScope ==
    (/\ x_pc = "done" /\ x_i > Len(XEvents(x_fields))
     /\ \A k \in 1..Len(x_fields) : ExactCase(x_fields[k]))
        => x_st.values \subseteq
               UNION { ScopedTexts(x_fields[k], FALSE) : k \in 1..Len(x_fields) }

(***************************************************************************)
(* Claims about the values a tag search stores and shows (Spec).           *)
(***************************************************************************)

\* Each value is less than the next: sorted, and no value twice.
StrictlyAscending(q) == \A i \in 1..(Len(q) - 1) : StrLess(q[i], q[i + 1])

\* C19: the value list a search stores, and the list shown in results, is
\* strictly ascending, and the stored xml_count is the number of XML files
\* enumerated for the search.
C19_SortedUnique ==
    /\ search_results.some =>
          /\ StrictlyAscending(search_results.values)
          /\ search_results.xml_count = Cardinality(XmlFiles)
    /\ StrictlyAscending(tab.results)
    /\ tab.status_message.kind = "done" =>
          tab.status_message.xml_count = Cardinality(XmlFiles)

\* The result of a search with several values was taken and is shown.
C19_Witness ==
    /\ results_from.by # 0
    /\ Len(tab.results) >= 2
    /\ tab.status_message.kind = "done"

(***************************************************************************)
(* Claims about generate_node_xml (SpecGen).                               *)
(***************************************************************************)

\* The characters of the lines.
Strs(lines) == [i \in 1..Len(lines) |-> lines[i].s]

\* Two spaces for each indent level.
RECURSIVE Pad(_)
Pad(level) == IF level = 0 THEN "" ELSE Pad(level - 1) \o "  "

\* The shape rule: a node without children is one line, <tag attrs>text</tag>
\* or <tag attrs />; any other node is an opening-tag line, its children by
\* the same rule one level deeper, and a closing-tag line.  With `own_text`,
\* a node with children has its text, if any, on a line of its own, one level
\* deeper, before its children.
RECURSIVE ShapeRule(_, _, _)
RECURSIVE ShapeRuleAll(_, _, _, _)
ShapeRule(node, level, own_text) ==
    LET open == Pad(level) \o "<" \o node.tag \o AttrText(node.attributes)
    IN  IF node.children = << >> /\ node.text # None
        THEN << open \o ">" \o node.text \o "</" \o node.tag \o ">" >>
        ELSE IF node.children = << >>
        THEN << open \o " />" >>
        ELSE << open \o ">" >>
             \o (IF own_text /\ node.text # None
                 THEN << Pad(level + 1) \o node.text >> ELSE << >>)
             \o ShapeRuleAll(node.children, 1, level + 1, own_text)
             \o << Pad(level) \o "</" \o node.tag \o ">" >>
ShapeRuleAll(children, i, level, own_text) ==
    IF i > Len(children) THEN << >>
    ELSE ShapeRule(children[i], level, own_text)
             \o ShapeRuleAll(children, i + 1, level, own_text)

\* C20, as stated: generate_node_xml renders a node by the shape rule, a node
\* with children as its opening-tag line, its children and its closing-tag
\* line.
C20_ShapeRule_AsStated ==
    g_pc = "done" => Strs(g_xml) = ShapeRule(g_node, g_indent, FALSE)

\* C20, amended: generate_node_xml renders a node by the shape rule, where a
\* node with children and a text has the text on a line of its own, one
\* indent level deeper, between its opening-tag line and its children.
C20_ShapeRule ==
    g_pc = "done" => Strs(g_xml) = ShapeRule(g_node, g_indent, TRUE)

\* An indented node with attributes, a text and a child that has an <li>
\* child was rendered.
C20_Witness ==
    /\ g_pc = "done" /\ g_indent > 0
    /\ g_node.attributes # << >> /\ g_node.text # None
    /\ Len(g_node.children) = 1
    /\ g_node.children[1].children # << >>
    /\ g_node.children[1].children[1].tag = "li"
    /\ Len(g_xml) = 6

(***************************************************************************)
(* Claims about the duplicate test of the li loop (SpecMerge).             *)
(***************************************************************************)

\* The attribute name/value pairs of a node, as a set.
AttrSet(n) == { n.attributes[i] : i \in 1..Len(n.attributes) }

\* Two list items with the same text and the same set of attributes.
SameItemBySet(a, b) == a.text = b.text /\ AttrSet(a) = AttrSet(b)

\* The last li child of the node folded.
LastIncomingLi == LiOf(LastNode)[Len(LiOf(LastNode))]

\* C21: an incoming li is skipped exactly when an li of the existing entry has
\* the same text and the same set of attribute name/value pairs, whatever the
\* order the attributes are written in; otherwise it is appended.  For a node
\* with a single li child: the entry's li children stay as they were when
\* such an li is present, and grow by the incoming li when none is.
C21_DuplicateByAttributeSet ==
    (HadEntry /\ Len(LiOf(LastNode)) = 1) =>
        LET present == \E p \in 1..Len(LiOf(EntryBefore)) :
                           SameItemBySet(LiOf(EntryBefore)[p], LastIncomingLi)
        IN  LiOf(EntryAfter) =
                IF present THEN LiOf(EntryBefore)
                ELSE Append(LiOf(EntryBefore), LastIncomingLi)

\* C22: when the node folded has li children and its tag already had an
\* entry, the li children the entry had are still its li children afterwards,
\* unchanged and in the same order, ahead of any li the fold added; also when
\* the node has non-li children that are merged against the entry's.
C22_ListItemsKept ==
    (HadEntry /\ HasLi(LastNode)) =>
        /\ MapHas(merged_nodes, LastNode.tag)
        /\ Len(LiOf(EntryAfter)) >= Len(LiOf(EntryBefore))
        /\ SubSeq(LiOf(EntryAfter), 1, Len(LiOf(EntryBefore))) = LiOf(EntryBefore)
        /\ \A c \in 1..Len(LiOf(EntryBefore)) :
               \E d \in 1..Len(EntryAfter.children) :
                   EntryAfter.children[d] = LiOf(EntryBefore)[c]

\* C22 witness: <comps>a</comps><li>y</li> folded with <li>x</li>
\* <comps>b</comps> keeps y, ahead of x and of the merged comps.
C22_Witness ==
    /\ HadEntry
    /\ EntryBefore.children = << Comps("a"), LiText("y") >>
    /\ LastNode.children = << LiText("x"), Comps("b") >>
    /\ EntryAfter.children = << LiText("y"), LiText("x"), Comps("b") >>

\* Two list items equal in text, attributes and children.
SameWholeItem(a, b) ==
    /\ TextOrEmpty(a) = TextOrEmpty(b)
    /\ a.attributes = b.attributes
    /\ a.children = b.children

\* C26: when the node folded has li children and its tag already had an
\* entry, an incoming li is dropped only if an li of the entry equals it in
\* text, attributes and children: every incoming li that differs from each li
\* the entry had is among the entry's li children afterwards.
C26_StructuredItemsKept ==
    (HadEntry /\ HasLi(LastNode)) =>
        \A c \in 1..Len(LiOf(LastNode)) :
            (\A p \in 1..Len(LiOf(EntryBefore)) :
                 ~SameWholeItem(LiOf(EntryBefore)[p], LiOf(LastNode)[c]))
            => \E d \in 1..Len(LiOf(EntryAfter)) :
                   LiOf(EntryAfter)[d] = LiOf(LastNode)[c]

\* C27: when the node folded has li children and its tag already had an
\* entry, the entry keeps its tag, its attributes and its text: the node's own
\* attributes and text are ignored, and only the entry's children can change.
C27_ListMergeFrame ==
    (HadEntry /\ HasLi(LastNode)) =>
        /\ MapHas(merged_nodes, LastNode.tag)
        /\ EntryAfter.tag = EntryBefore.tag
        /\ EntryAfter.attributes = EntryBefore.attributes
        /\ EntryAfter.text = EntryBefore.text
        /\ Len(merged_nodes) = Len(m_prev)

\* C27 witness: <tags k="v"><li>y</li></tags> folded onto <tags><li>x</li>
\* </tags> adds its li and leaves the entry without attributes.
C27_Witness ==
    /\ HadEntry
    /\ LastNode.attributes = << KV >>
    /\ LastNode.children = << LiText("y") >>
    /\ EntryBefore = Tags(<< LiText("x") >>)
    /\ EntryAfter = Tags(<< LiText("x"), LiText("y") >>)

(***************************************************************************)
(* Claims about the name of a record (SpecParse).                          *)
(***************************************************************************)

NoNameAttribute(el) == \A a \in 1..Len(el.attrs) : el.attrs[a][1] # "Name"

\* C28: a record root without a Name attribute is named by the text of a
\* defName element that is its direct child; a defName nested deeper in the
\* record never names it.  For a file of one record root: every record
\* returned carries the text of a direct defName child of the root.
C28_DirectChildIdentity ==
    (/\ p_pc = "done" /\ WellFormed
     /\ Len(p_items) = 1 /\ EndsWithDef(p_items[1].tag)
     /\ NoNameAttribute(p_items[1]))
        => \A k \in 1..Len(p_st.results) :
               p_st.results[k].def_name \in DefNameTexts(p_items[1])

(***************************************************************************)
(* Claims about the li branch of generate_node_xml (SpecGen).              *)
(***************************************************************************)

\* The children rendered by the general rule alone: a generate_node_xml call
\* at indent_level + 1 for each child, from the i-th.
RECURSIVE GeneralChildren(_, _, _)
GeneralChildren(children, i, indent_level) ==
    IF i > Len(children) THEN << >>
    ELSE GenerateNodeXml(children[i], indent_level + 1)
             \o GeneralChildren(children, i + 1, indent_level)

\* The lines written for the children of the node rendered: those between
\* the opening-tag line, with the text line if the node has a text, and the
\* closing-tag line.
ChildLines ==
    SubSeq(g_xml, IF g_node.text # None THEN 3 ELSE 2, Len(g_xml) - 1)

\* An li child without children of the node rendered, with or without a
\* text, with or without attributes.
BareLi(child) == child.tag = "li" /\ child.children = << >>

\* C30: for an li child without children, the single-line branch of the child
\* loop writes what a generate_node_xml call at indent_level + 1 would write,
\* with or without a text and with or without attributes: the lines written
\* for the children are those of the general rule.
C30_LiBranchRedundant ==
    (g_pc = "done" /\ g_node.children # << >>) =>
        /\ ChildLines = GeneralChildren(g_node.children, 1, g_indent)
        /\ \A c \in 1..Len(g_node.children) :
               BareLi(g_node.children[c]) =>
                   << LiLine(Indent(g_indent), g_node.children[c]) >>
                       = GenerateNodeXml(g_node.children[c], g_indent + 1)

\* C30 witness: an li with an attribute and no text was written on its line,
\* one level below an indented node.
C30_Witness ==
    /\ g_pc = "done" /\ g_indent = 1
    /\ g_node.children # << >>
    /\ g_node.children[1] = LiAttr(None, << KV >>)
    /\ g_xml[2].s = "    <li k=\"v\" />"

(***************************************************************************)
(* Claims about the selection of the inheritance tab (SpecInherit).        *)
(***************************************************************************)

\* C25: after any scans, selections of a listed Def and edits of the search
\* query, a non-empty inheritance_chain ends with selected_def_name, which is
\* a key of the index, and a non-empty expanded_xml comes with a non-empty
\* inheritance_chain.
C25_SelectionConsistency ==
    /\ inheritance_chain # << >> =>
           /\ inheritance_chain[Len(inheritance_chain)] = selected_def_name
           /\ selected_def_name \in Keys(all_defs)
    /\ expanded_xml # << >> => inheritance_chain # << >>

\* C25 witness: with a query in the search box, Mid was selected and expanded
\* to a chain of two names or more.
C25_Witness ==
    /\ e_pc = "idle"
    /\ search_query = "mi"
    /\ selected_def_name = "Mid"
    /\ Len(inheritance_chain) >= 2
    /\ inheritance_chain[Len(inheritance_chain)] = "Mid"
    /\ expanded_xml # << >>

(***************************************************************************)
(* Claims about the merged mapping of a chain (SpecInherit).               *)
(***************************************************************************)

\* The tags of the direct children of the indexed records of the chain.
ChainTags ==
    UNION { { Get(all_defs, n).raw_nodes[i].tag :
                  i \in 1..Len(Get(all_defs, n).raw_nodes) } :
            n \in { inheritance_chain[k] : k \in 1..Len(inheritance_chain) }
                      \cap Keys(all_defs) }

\* The mapping expand_inheritance folded the stored chain into.
MergedOfChain == FoldChain(<< >>, all_defs, inheritance_chain, 1)

\* The lines of the entries of the given tags, each rendered at level 1.
RECURSIVE BlocksOf(_, _)
BlocksOf(tags, i) ==
    IF i > Len(tags) THEN << >>
    ELSE Strs(GenerateNodeXml(MapGet(MergedOfChain, tags[i]), 1))
             \o BlocksOf(tags, i + 1)

DefNameLines ==
    { i \in 1..Len(expanded_xml) :
          expanded_xml[i].tag = "defName" /\ expanded_xml[i].kind # "close" }

\* C29: after expand_inheritance has folded a chain, the merged mapping has
\* one entry for each tag that is a direct child of an indexed record of the
\* chain, and no other; names of the chain that are not indexed add nothing;
\* and the XML is the opening line, one defName line with the selected name,
\* the entries of every tag but defName once each in ascending tag order, and
\* the closing line.
C29_MergedTagSet ==
    (Expanded /\ inheritance_chain # << >>) =>
        /\ { MergedOfChain[i].tag : i \in 1..Len(MergedOfChain) } = ChainTags
        /\ Len(MergedOfChain) = Cardinality(ChainTags)
        /\ Strs(expanded_xml) =
               << "<" \o Selected.def_type \o ">",
                  "  <defName>" \o selected_def_name \o "</defName>" >>
               \o BlocksOf(SortedSeq(ChainTags \ {"defName"}), 1)
               \o << "</" \o Selected.def_type \o ">" >>
        /\ DefNameLines = {2}

\* C29 witness: Leaf, child of Root, child of a record that is not indexed:
\* defName once, then label (Leaf's) and tags (Root's).
C29_Witness ==
    /\ Expanded
    /\ inheritance_chain = << Ghost, "Root", "Leaf" >>
    /\ Strs(expanded_xml) =
           << "<ThingDef>", "  <defName>Leaf</defName>", "  <label>y</label>",
              "  <tags>", "    <li>x</li>", "  </tags>", "</ThingDef>" >>

(***************************************************************************)
(* Claims about the searching indicator (Spec).                            *)
(***************************************************************************)

\* Search t is the one issued last, it passed validation (its thread was
\* spawned and holds the tab's cancel flag) and it has not been cancelled.
LatestSearch(t) ==
    /\ tab.cancel_flag = t
    /\ threads[t].pc # "none"
    /\ ~flags[t]

\* check_search_results has taken the result of search t.
ResultTaken(t) == results_from.by = t

\* C24: while the search issued last passed validation, has not been
\* cancelled and its result has not been taken by check_search_results,
\* is_searching is true.
C24_SearchingIndicator ==
    \A t \in SearchIds :
        (LatestSearch(t) /\ ~ResultTaken(t)) => tab.is_searching

(***************************************************************************)
(* Claims about the search displayed in the end (SpecFair).                *)
(***************************************************************************)

\* The results displayed are those search t stored, and the indicator is off.
Displayed(t) == ~tab.is_searching /\ ResultTaken(t)

\* C23: when no search follows search t, issued last and valid, then under
\* fair scheduling of the threads and of check_search_results, eventually
\* is_searching is false and the results displayed are the values search t
\* computed, and they stay so; an earlier search's values do not stay
\* displayed.
C23_LatestSearchWins ==
    \A t \in SearchIds : <>[]LatestSearch(t) => <>[]Displayed(t)

====
